---- MODULE Spec2Model ----
(***************************************************************************)
(* Message delivery and presence-tracking core of chat_api.                *)
(*                                                                         *)
(* The socket handlers are those of src/index.js (lines 865-1126 and       *)
(* 2543-2568; lines 2797-3058 repeat them verbatim), the REST handlers     *)
(* those of the chat router (src/unnamed/part_002, and the earlier         *)
(* mark-as-read of src/routes/chat.js).  Every `await` and every promise   *)
(* callback of a handler is a separate step, so that handlers interleave   *)
(* exactly where Node's event loop lets them.  Store reads and updates     *)
(* succeed; message.save() may reject, the one store failure the handlers  *)
(* treat explicitly.                                                       *)
(***************************************************************************)
EXTENDS Integers, Sequences, FiniteSets, TLC

\* ------------------------------------------------------------------ bounds
MaxMsgs == 2          \* messages created in one behaviour
MaxClock == 1         \* values the wall clock takes after its initial one
MaxMarks == 2         \* mark-as-read requests in flight at once
MaxDeletes == 1       \* accounts deleted in one behaviour

\* ------------------------------------------------------------------ domains
None == "none"
Users == {"u1", "u2", "u3"}
Conns == {"c1", "c2"}
Null == 0             \* a null Date (deliveredAt, readAt); clock values are >= 1

\* User.isAdmin: the account created by createAdminUser is the privileged one.
IsAdmin(u) == u = "u1"

VARIABLES
    connState,        \* socket.io: "new" (not yet connected), "open", "closed"
    userId,           \* socket.userId of every connection
    rooms,            \* socket.io rooms (named by user id) each connection joined
    connectedUsers,   \* the Map connectedUsers, as its set of <<key, value>> entries
    adminSockets,     \* the Set adminSockets
    authOps,          \* authenticate handlers suspended at an await
    users,            \* User collection: ids of the accounts that exist
    fcmTokens,        \* users whose document has an fcmToken
    msgs,             \* Message collection, in persistence order
    nextId,           \* next message _id to hand out
    sendOps,          \* send handlers (socket and REST) past admission, finished ones included
    markOps,          \* mark-as-read handlers with callbacks due
    emits,            \* events emitted (and FCM calls made) by the last step
    fcmCount,         \* sendFCMNotification invocations per message id
    now,              \* wall clock (new Date())
    reported,         \* per <<reader, sender>>: sum of the counts mark-as-read calls reported
    confirmed,        \* <<reader, sender>>: a mark-as-read was confirmed to the reader
                      \* and no message from sender to reader was created or saved since
    listOp,           \* the GET /conversations request in progress, if any
    deleting,         \* accounts whose delete-account has removed their messages
    last,             \* the handler step taken last: <<name, connection or user, user>>
    payment,          \* the UnifiedPayment document of type 'ai_chat' created for u2
    aiChat,           \* messages of the AIChat document of u2, in order
    activeAIRequests, \* the Map activeAIRequests, as the set of its keys
    paidOps           \* paid-question handlers (socket and REST), by request

vars == <<connState, userId, rooms, connectedUsers, adminSockets, authOps, users,
          fcmTokens, msgs, nextId, sendOps, markOps, emits, fcmCount, now,
          reported, confirmed, listOp, deleting, last, payment, aiChat,
          activeAIRequests, paidOps>>

\* ------------------------------------------------------------------ Map
MapHas(m, k) == \E e \in m : e[1] = k
MapGet(m, k) == IF MapHas(m, k) THEN (CHOOSE e \in m : e[1] = k)[2] ELSE None
MapSet(m, k, v) == {e \in m : e[1] # k} \cup {<<k, v>>}
MapDelete(m, k) == {e \in m : e[1] # k}

\* ------------------------------------------------------------------ events
\* One emitted event.  to: the connection that receives it; the other fields
\* carry the payload (None / 0 / FALSE where the event has no such field).
Ev(to, ev, user, msg, count, delivered, at) ==
    [to |-> to, ev |-> ev, user |-> user, msg |-> msg, count |-> count,
     delivered |-> delivered, at |-> at]

\* socket.emit(...) and io.to(socketId).emit(...): reaches the socket while it
\* is connected, and is dropped otherwise.
ToSocketDropped(c, ev, user, msg, count, delivered, at) == {}
ToSocket(c, ev, user, msg, count, delivered, at) ==
    IF c # None /\ connState[c] = "open"
    THEN {Ev(c, ev, user, msg, count, delivered, at)} ELSE {}

\* io.to(userId).emit(...): reaches every connected socket that joined the
\* user's room.
ToRoom(u, ev, user, msg, count, delivered, at) ==
    {Ev(c, ev, user, msg, count, delivered, at) :
        c \in {d \in Conns : u \in rooms[d] /\ connState[d] = "open"}}

\* ------------------------------------------------------------------ Init
NoOp == [pc |-> "idle", uid |-> None, found |-> FALSE]
NoList == [pc |-> "idle", user |-> None, ids |-> {}, after |-> {}]

\* The paid-question handlers: the socket event ai_ask_paid and the routes
\* POST /ask-paid and POST /retry-paid, one request of each, all for the one
\* payment of Owner.
Requests == {"ai_ask_paid", "/ask-paid", "/retry-paid"}
Owner == "u2"
OwnerSocket == "c1"
PaymentId == "p1"
NoPaid == [pc |-> "idle", isRetry |-> FALSE, response |-> None]

\* POST /create-payment has stored the payment, pending and unanswered, and
\* the user's AIChat document holds the free question and its answer.
InitAI ==
    /\ payment = [status |-> "pending", questionAnswered |-> FALSE]
    /\ aiChat = <<[role |-> "user", paymentId |-> None],
                  [role |-> "ai", paymentId |-> None]>>
    /\ activeAIRequests = {}
    /\ paidOps = [r \in Requests |-> NoPaid]

Init ==
    /\ connState = [c \in Conns |-> "new"]
    /\ userId = [c \in Conns |-> None]
    /\ rooms = [c \in Conns |-> {}]
    /\ connectedUsers = {}
    /\ adminSockets = {}
    /\ authOps = [c \in Conns |-> NoOp]
    /\ users = Users
    /\ fcmTokens = {}
    /\ msgs = <<>>
    /\ nextId = 1
    /\ sendOps = {}
    /\ markOps = {}
    /\ emits = {}
    /\ fcmCount = [i \in 1..MaxMsgs |-> 0]
    /\ now = 1
    /\ reported = [p \in Users \X Users |-> 0]
    /\ confirmed = {}
    /\ listOp = NoList
    /\ deleting = {}
    /\ last = <<"Init", None, None>>
    /\ InitAI

presenceVars == <<connState, userId, rooms, connectedUsers, adminSockets, authOps>>
storeVars == <<msgs, nextId, sendOps, markOps, fcmCount, reported, confirmed, listOp,
              deleting>>
aiVars == <<payment, aiChat, activeAIRequests, paidOps>>

\* ------------------------------------------------------------------ connection lifecycle
\* io.on('connection'): a fresh socket, not bound to any user.
Connect(c) ==
    /\ connState[c] = "new"
    /\ connState' = [connState EXCEPT ![c] = "open"]
    /\ emits' = {}
    /\ last' = <<"Connect", c, None>>
    /\ UNCHANGED <<userId, rooms, connectedUsers, adminSockets, authOps, users,
                   fcmTokens, now>>
    /\ UNCHANGED storeVars
    /\ UNCHANGED aiVars

\* What a client may send as the token of 'authenticate': nothing, a token
\* jwt.verify rejects, or a valid token naming a user id.
Tokens == {"missing", "invalid", "expired"} \cup Users

\* User.findOne({_id: decoded.userId}): index.js 880.
UserExistsAlways(id) == TRUE
UserExists(id) == id \in users

\* socket.on('authenticate'), up to `await User.findOne(...)`.
AuthStart(c, tok) ==
    /\ connState[c] = "open"
    /\ authOps[c].pc = "idle"
    /\ last' = <<"AuthStart", c, None>>
    /\ IF tok = "missing"
       THEN /\ emits' = ToSocket(c, "error:No token provided", None, 0, 0, FALSE, Null)
            /\ UNCHANGED authOps
       ELSE IF tok = "invalid"
       THEN /\ emits' = ToSocket(c, "error:Invalid token", None, 0, 0, FALSE, Null)
            /\ UNCHANGED authOps
       ELSE IF tok = "expired"
       THEN /\ emits' = ToSocket(c, "error:Token expired. Please login again.", None, 0, 0,
                                 FALSE, Null)
            /\ UNCHANGED authOps
       ELSE /\ emits' = {}
            /\ authOps' = [authOps EXCEPT
                           ![c] = [pc |-> "lookup", uid |-> tok, found |-> UserExists(tok)]]
    /\ UNCHANGED <<connState, userId, rooms, connectedUsers, adminSockets, users,
                   fcmTokens, now>>
    /\ UNCHANGED storeVars
    /\ UNCHANGED aiVars

\* The bind of 'authenticate': index.js 889.
BindMerging(m, u, c) == m \cup {<<u, c>>}
Bind(m, u, c) == MapSet(m, u, c)

\* The eviction of the superseded connection: index.js 884-887.
EvictNone(admins, existing, c) == admins
Evict(admins, existing, c) ==
    IF existing # None /\ existing # c THEN admins \ {existing} ELSE admins

\* socket.on('authenticate'), after `await User.findOne(...)`.
AuthBindDelivering(c) ==
    LET op == authOps[c]
        u == op.uid
        existing == MapGet(connectedUsers, u)
    IN  /\ op.pc = "lookup"
        /\ last' = <<"AuthBind", c, u>>
        /\ IF op.found
           THEN /\ connectedUsers' = Bind(connectedUsers, u, c)
                /\ userId' = [userId EXCEPT ![c] = u]
                /\ rooms' = [rooms EXCEPT ![c] = @ \cup {u}]
                /\ msgs' = [i \in 1..Len(msgs) |->
                               IF msgs[i].receiver = u /\ ~msgs[i].isDelivered
                               THEN [msgs[i] EXCEPT !.isDelivered = TRUE, !.deliveredAt = now]
                               ELSE msgs[i]]
                /\ IF IsAdmin(u)
                   THEN /\ adminSockets' = Evict(adminSockets, existing, c) \cup {c}
                        /\ authOps' = [authOps EXCEPT ![c] = [op EXCEPT !.pc = "list"]]
                        /\ emits' = {}
                   ELSE /\ adminSockets' = Evict(adminSockets, existing, c)
                        /\ authOps' = [authOps EXCEPT ![c] = NoOp]
                        /\ emits' = ToSocket(c, "authenticated", u, 0, 0, FALSE, Null)
           ELSE /\ emits' = ToSocket(c, "error:User not found", None, 0, 0, FALSE, Null)
                /\ authOps' = [authOps EXCEPT ![c] = NoOp]
                /\ UNCHANGED <<connectedUsers, userId, rooms, adminSockets, msgs>>
        /\ UNCHANGED <<connState, users, fcmTokens, now>>
        /\ UNCHANGED <<nextId, sendOps, markOps, fcmCount, reported, confirmed, listOp,
                       deleting>>
        /\ UNCHANGED aiVars
AuthBind(c) ==
    LET op == authOps[c]
        u == op.uid
        existing == MapGet(connectedUsers, u)
    IN  /\ op.pc = "lookup"
        /\ last' = <<"AuthBind", c, u>>
        /\ IF op.found
           THEN /\ connectedUsers' = Bind(connectedUsers, u, c)
                /\ userId' = [userId EXCEPT ![c] = u]
                /\ rooms' = [rooms EXCEPT ![c] = @ \cup {u}]
                /\ IF IsAdmin(u)
                   THEN /\ adminSockets' = Evict(adminSockets, existing, c) \cup {c}
                        /\ authOps' = [authOps EXCEPT ![c] = [op EXCEPT !.pc = "list"]]
                        /\ emits' = {}
                   ELSE /\ adminSockets' = Evict(adminSockets, existing, c)
                        /\ authOps' = [authOps EXCEPT ![c] = NoOp]
                        /\ emits' = ToSocket(c, "authenticated", u, 0, 0, FALSE, Null)
           ELSE /\ emits' = ToSocket(c, "error:User not found", None, 0, 0, FALSE, Null)
                /\ authOps' = [authOps EXCEPT ![c] = NoOp]
                /\ UNCHANGED <<connectedUsers, userId, rooms, adminSockets>>
        /\ UNCHANGED <<connState, users, fcmTokens, now>>
        /\ UNCHANGED storeVars
        /\ UNCHANGED aiVars

\* socket.on('authenticate') of an admin, after `await User.find(...)`.
AuthAdminList(c) ==
    /\ authOps[c].pc = "list"
    /\ last' = <<"AuthAdminList", c, authOps[c].uid>>
    /\ authOps' = [authOps EXCEPT ![c] = NoOp]
    /\ emits' = ToSocket(c, "user_list", None, 0, 0, FALSE, Null)
                \cup ToSocket(c, "authenticated", authOps[c].uid, 0, 0, FALSE, Null)
    /\ UNCHANGED <<connState, userId, rooms, connectedUsers, adminSockets, users,
                   fcmTokens, now>>
    /\ UNCHANGED storeVars
    /\ UNCHANGED aiVars

\* The unbind of 'disconnect': index.js 2545-2547.
Unbind(m, u, c) == MapDelete(m, u)

\* socket.on('disconnect'); socket.io also takes the socket out of its rooms.
Disconnect(c) ==
    /\ connState[c] = "open"
    /\ connState' = [connState EXCEPT ![c] = "closed"]
    /\ last' = <<"Disconnect", c, userId[c]>>
    /\ rooms' = [rooms EXCEPT ![c] = {}]
    /\ IF userId[c] # None
       THEN /\ connectedUsers' = Unbind(connectedUsers, userId[c], c)
            /\ adminSockets' = adminSockets \ {c}
       ELSE UNCHANGED <<connectedUsers, adminSockets>>
    /\ emits' = {}
    /\ UNCHANGED <<userId, authOps, users, fcmTokens, now>>
    /\ UNCHANGED storeVars
    /\ UNCHANGED aiVars


\* ------------------------------------------------------------------ Message store
\* A Message document.  isRead and readAt start at the schema defaults.
Msg(id, s, r, delivered, deliveredAt, createdAt) ==
    [id |-> id, sender |-> s, receiver |-> r, isDelivered |-> delivered,
     deliveredAt |-> deliveredAt, isRead |-> FALSE, readAt |-> Null,
     createdAt |-> createdAt]
NoMsg == Msg(0, None, None, FALSE, Null, Null)

Stored == {msgs[i] : i \in 1..Len(msgs)}

\* Message.countDocuments({receiver, sender, isRead: false})
Unread(r, s) == {m \in Stored : m.receiver = r /\ m.sender = s /\ ~m.isRead}

\* new Date(): the clock may have advanced since it was last read.
Clock(t) == t \in {now, now + 1} /\ t <= MaxClock + 1

\* ------------------------------------------------------------------ content
\* A message text is a sequence of characters; " " is the one trim() strips.
Contents == {<<>>, <<" ">>, <<"a">>, <<" ", "a", " ">>, <<"a", "a", "a", "a">>}
\* The limit of `content.length > 1000`, scaled to the texts above.
MaxContentLength == 3

RECURSIVE TrimLeft(_)
TrimLeft(t) == IF t # <<>> /\ Head(t) = " " THEN TrimLeft(Tail(t)) ELSE t
RECURSIVE TrimRight(_)
TrimRight(t) ==
    IF t # <<>> /\ t[Len(t)] = " " THEN TrimRight(SubSeq(t, 1, Len(t) - 1)) ELSE t
Trim(t) == TrimRight(TrimLeft(t))

\* The checks both send handlers make before they look the receiver up.
ContentErrorUntrimmed(r, content) ==
    IF r = None \/ content = <<>> THEN "Receiver ID and content are required"
    ELSE IF Len(content) > MaxContentLength
         THEN "Message content too long (max 1000 characters)"
    ELSE "ok"
ContentError(r, content) ==
    IF r = None \/ content = <<>> THEN "Receiver ID and content are required"
    ELSE IF Trim(content) = <<>> THEN "Content must be a non-empty string"
    ELSE IF Len(content) > MaxContentLength
         THEN "Message content too long (max 1000 characters)"
    ELSE "ok"

\* socket.on('send_message'): index.js 923-950.
SendError(uid, r, content) ==
    IF uid = None THEN "Not authenticated"
    ELSE IF ContentError(r, content) # "ok" THEN ContentError(r, content)
    ELSE IF r = uid THEN "Cannot send message to yourself"
    ELSE "ok"

\* ------------------------------------------------------------------ send operations
\* n: slot of the operation; kind: "socket" or "rest"; pc: where the handler
\* stands; conn: the sending socket; user: the sender id the handler used;
\* found/token: the receiver document the lookup returned; msg: the document
\* built; rsock: receiverSocketId; todo: promise callbacks still due; at:
\* deliveredAt of the REST update; fcm: what became of the notification.
SendOp(n, kind, c, u, r) ==
    [n |-> n, kind |-> kind, pc |-> "lookup", conn |-> c, user |-> u, receiver |-> r,
     found |-> r \in users, token |-> r \in fcmTokens, msg |-> NoMsg, rsock |-> None,
     todo |-> {}, at |-> Null, fcm |-> "none"]

FreeSlot == CHOOSE n \in 1..MaxMsgs : \A op \in sendOps : op.n # n
\* A send is taken up only while a message id is left for it.
Capacity == (nextId - 1) + Cardinality({op \in sendOps : op.pc = "lookup"}) < MaxMsgs

Replace(op, op2) == (sendOps \ {op}) \cup {op2}
Finish(op2) == IF op2.todo = {} THEN [op2 EXCEPT !.pc = "done"] ELSE op2

\* socket.on('send_message'), up to `await User.findById(receiverId)`.
SendStart(c, r, content) ==
    /\ connState[c] = "open"
    /\ last' = <<"SendStart", c, userId[c]>>
    /\ LET err == SendError(userId[c], r, content)
       IN  IF err # "ok"
           THEN /\ emits' = ToSocket(c, "error:" \o err, None, 0, 0, FALSE, Null)
                /\ UNCHANGED sendOps
           ELSE /\ Capacity
                /\ emits' = {}
                /\ sendOps' = sendOps \cup {SendOp(FreeSlot, "socket", c, None, r)}
    /\ UNCHANGED <<msgs, nextId, markOps, fcmCount, reported, users, fcmTokens, now>>
    /\ UNCHANGED presenceVars
    /\ UNCHANGED aiVars
    /\ UNCHANGED <<confirmed, listOp, deleting>>

\* The Message document of the socket handler: index.js 966-974.
NewSocketMessage(id, s, r, isOnline, t) ==
    Msg(id, s, r, isOnline, IF isOnline THEN t ELSE Null, t)

\* The callbacks the socket handler leaves behind: index.js 1002, 1015, 1023.
SocketTodoOnlineOnly(isOnline, token) ==
    {"save"} \cup (IF isOnline THEN {"count"} ELSE {})
             \cup (IF token /\ isOnline THEN {"fcm"} ELSE {})
SocketTodo(isOnline, token) ==
    {"save"} \cup (IF isOnline THEN {"count"} ELSE {})
             \cup (IF token THEN {"fcm"} ELSE {})

\* socket.on('send_message'), after the receiver lookup: index.js 954-1045.
SendEmit(op) ==
    /\ op.kind = "socket" /\ op.pc = "lookup"
    /\ last' = <<"SendEmit", op.conn, userId[op.conn]>>
    /\ IF ~op.found
       THEN /\ emits' = ToSocket(op.conn, "error:Receiver not found", None, 0, 0,
                                 FALSE, Null)
            /\ sendOps' = sendOps \ {op}
            /\ UNCHANGED <<nextId, now, confirmed>>
       ELSE \E t \in {now, now + 1} :
            LET s == userId[op.conn]
                rs == MapGet(connectedUsers, op.receiver)
                isOnline == rs # None
                m == NewSocketMessage(nextId, s, op.receiver, isOnline, t)
                at == IF isOnline THEN t ELSE Null
            IN  /\ Clock(t)
                /\ now' = t
                /\ nextId' = nextId + 1
                /\ confirmed' = confirmed \ {<<op.receiver, s>>}
                /\ emits' = ToSocket(op.conn, "new_message", s, m.id, 0, isOnline, at)
                     \cup (IF isOnline
                           THEN ToSocket(rs, "new_message", s, m.id, 0, isOnline, at)
                                \cup ToSocket(op.conn, "message_delivered", None, m.id,
                                              0, TRUE, t)
                           ELSE {})
                /\ sendOps' = Replace(op, [op EXCEPT !.pc = "post", !.user = s,
                                  !.msg = m, !.rsock = rs,
                                  !.todo = SocketTodo(isOnline, op.token),
                                  !.fcm = IF op.token THEN "due" ELSE "none"])
    /\ UNCHANGED <<msgs, markOps, fcmCount, reported, users, fcmTokens>>
    /\ UNCHANGED presenceVars
    /\ UNCHANGED aiVars
    /\ UNCHANGED <<listOp, deleting>>

\* The callback of Message.countDocuments: index.js 1002-1011.
SendCount(op) ==
    /\ "count" \in op.todo
    /\ last' = <<"SendCount", op.conn, op.user>>
    /\ emits' = ToSocket(op.rsock, "unread_count_update", userId[op.conn], 0,
                         Cardinality(Unread(op.receiver, op.user)), FALSE, Null)
    /\ sendOps' = Replace(op, Finish([op EXCEPT !.todo = @ \ {"count"}]))
    /\ UNCHANGED <<msgs, nextId, markOps, fcmCount, reported, users, fcmTokens, now>>
    /\ UNCHANGED presenceVars
    /\ UNCHANGED aiVars
    /\ UNCHANGED <<confirmed, listOp, deleting>>

\* message.save() and its catch: index.js 1015-1018.
SendSave(op, ok) ==
    /\ "save" \in op.todo
    /\ last' = <<"SendSave", op.conn, op.user>>
    /\ IF ok
       THEN /\ msgs' = Append(msgs, op.msg)
            /\ confirmed' = confirmed \ {<<op.msg.receiver, op.msg.sender>>}
            /\ emits' = {}
       ELSE /\ emits' = ToSocket(op.conn, "error:Message sent but failed to save", None,
                                 op.msg.id, 0, FALSE, Null)
            /\ UNCHANGED <<msgs, confirmed>>
    /\ sendOps' = Replace(op, Finish([op EXCEPT !.todo = @ \ {"save"}]))
    /\ UNCHANGED <<nextId, markOps, fcmCount, reported, users, fcmTokens, now>>
    /\ UNCHANGED presenceVars
    /\ UNCHANGED aiVars
    /\ UNCHANGED <<listOp, deleting>>

\* The callback of the sender lookup, which calls sendFCMNotification:
\* index.js 1024-1044.  The "fcm" event stands for the call: to is the
\* receiver whose fcmToken it is given, msg the messageId of its data.
SendFcm(op) ==
    /\ "fcm" \in op.todo
    /\ last' = <<"SendFcm", op.conn, op.user>>
    /\ IF op.user \in users
       THEN /\ fcmCount' = [fcmCount EXCEPT ![op.msg.id] = @ + 1]
            /\ emits' = {Ev(op.receiver, "fcm", userId[op.conn], op.msg.id, 0, FALSE, Null)}
            /\ sendOps' = Replace(op, Finish([op EXCEPT !.todo = @ \ {"fcm"},
                                                        !.fcm = "sent"]))
       ELSE /\ emits' = {}
            /\ sendOps' = Replace(op, Finish([op EXCEPT !.todo = @ \ {"fcm"},
                                                        !.fcm = "nosender"]))
            /\ UNCHANGED fcmCount
    /\ UNCHANGED <<msgs, nextId, markOps, reported, users, fcmTokens, now>>
    /\ UNCHANGED presenceVars
    /\ UNCHANGED aiVars
    /\ UNCHANGED <<confirmed, listOp, deleting>>

\* What the send handler emits once sendFCMNotification has settled: nothing.
\* sendFCMNotification catches the error of admin.messaging().send and returns
\* {success: false} (index.js 726-729); the handler's own catch only logs
\* (index.js 1041).
FcmSettledReported(op, ok) ==
    IF ok THEN {}
    ELSE ToSocket(op.conn, "error:Failed to send message", None, op.msg.id, 0, FALSE, Null)
FcmSettled(op, ok) == {}

\* The promise of sendFCMNotification settles: the push went out (ok) or
\* admin.messaging().send failed.  A call that never returns is a send whose
\* FcmSettle is never taken.
FcmSettle(op, ok) ==
    /\ op.fcm = "sent"
    /\ last' = <<"FcmSettle", op.conn, op.user>>
    /\ emits' = FcmSettled(op, ok)
    /\ sendOps' = Replace(op, [op EXCEPT !.fcm = IF ok THEN "pushed" ELSE "failed"])
    /\ UNCHANGED <<msgs, nextId, markOps, fcmCount, reported, users, fcmTokens, now>>
    /\ UNCHANGED presenceVars
    /\ UNCHANGED aiVars
    /\ UNCHANGED <<confirmed, listOp, deleting>>


\* ------------------------------------------------------------------ REST /send
\* An HTTP response, addressed to the user the auth middleware accepted.
Http(u, ev, user, msg, count, delivered, at) == {Ev(u, ev, user, msg, count, delivered, at)}

\* The Message document of router.post('/send'), whose delivery and read
\* fields are the schema defaults: part_002 37-41.
NewRestMessage(id, s, r, t) == Msg(id, s, r, FALSE, Null, t)

\* router.post('/send'), up to `await User.findById(receiverId)`; auth has
\* found the caller's account.
RestSendStart(u, r, content) ==
    /\ u \in users
    /\ last' = <<"RestSendStart", u, r>>
    /\ LET err == ContentError(r, content)
       IN  IF err # "ok"
           THEN /\ emits' = Http(u, "http:400:" \o err, None, 0, 0, FALSE, Null)
                /\ UNCHANGED sendOps
           ELSE /\ Capacity
                /\ emits' = {}
                /\ sendOps' = sendOps \cup {SendOp(FreeSlot, "rest", None, u, r)}
    /\ UNCHANGED <<msgs, nextId, markOps, fcmCount, reported, users, fcmTokens, now>>
    /\ UNCHANGED presenceVars
    /\ UNCHANGED aiVars
    /\ UNCHANGED <<confirmed, listOp, deleting>>

\* router.post('/send') from the receiver lookup to the response: part_002 27-43, 78.
RestSendSave(op, ok) ==
    /\ op.kind = "rest" /\ op.pc = "lookup"
    /\ last' = <<"RestSendSave", op.user, op.receiver>>
    /\ IF ~op.found
       THEN /\ emits' = Http(op.user, "http:404:Receiver not found", None, 0, 0, FALSE, Null)
            /\ sendOps' = sendOps \ {op}
            /\ UNCHANGED <<msgs, nextId, now, confirmed>>
       ELSE IF op.receiver = op.user
       THEN /\ emits' = Http(op.user, "http:400:Cannot send message to yourself", None, 0,
                             0, FALSE, Null)
            /\ sendOps' = sendOps \ {op}
            /\ UNCHANGED <<msgs, nextId, now, confirmed>>
       ELSE \E t \in {now, now + 1} :
            LET m == NewRestMessage(nextId, op.user, op.receiver, t)
            IN  /\ Clock(t)
                /\ now' = t
                /\ nextId' = nextId + 1
                /\ confirmed' = confirmed \ {<<op.receiver, op.user>>}
                /\ IF ok
                   THEN /\ msgs' = Append(msgs, m)
                        /\ emits' = Http(op.user, "http:201", m.sender, m.id, 0,
                                         m.isDelivered, m.deliveredAt)
                        /\ sendOps' = Replace(op, [op EXCEPT !.pc = "deliver", !.msg = m])
                   ELSE /\ emits' = Http(op.user, "http:400:save failed", None, m.id, 0,
                                         FALSE, Null)
                        /\ sendOps' = Replace(op, [op EXCEPT !.pc = "done", !.msg = m])
                        /\ UNCHANGED msgs
    /\ UNCHANGED <<markOps, fcmCount, reported, users, fcmTokens>>
    /\ UNCHANGED presenceVars
    /\ UNCHANGED aiVars
    /\ UNCHANGED <<listOp, deleting>>

\* io.sockets.adapter.rooms.get(receiverRoom): part_002 52-53.
RoomOnline(u) == \E c \in Conns : u \in rooms[c]

\* The setImmediate callback of router.post('/send'), up to `await
\* Message.updateOne(...)`: part_002 50-57.
RestSendCheck(op) ==
    /\ op.kind = "rest" /\ op.pc = "deliver"
    /\ last' = <<"RestSendCheck", op.user, op.receiver>>
    /\ emits' = {}
    /\ IF RoomOnline(op.receiver)
       THEN \E t \in {now, now + 1} :
                /\ Clock(t)
                /\ now' = t
                /\ sendOps' = Replace(op, [op EXCEPT !.pc = "update", !.at = t])
       ELSE /\ sendOps' = Replace(op, [op EXCEPT !.pc = "done"])
            /\ UNCHANGED now
    /\ UNCHANGED <<msgs, nextId, markOps, fcmCount, reported, users, fcmTokens>>
    /\ UNCHANGED presenceVars
    /\ UNCHANGED aiVars
    /\ UNCHANGED <<confirmed, listOp, deleting>>

\* Message.updateOne({_id, isDelivered: false}, {$set: {isDelivered: true, deliveredAt}})
MarkDeliveredFlagOnly(m, id, t) ==
    IF m.id = id /\ ~m.isDelivered THEN [m EXCEPT !.isDelivered = TRUE] ELSE m
MarkDelivered(m, id, t) ==
    IF m.id = id /\ ~m.isDelivered
    THEN [m EXCEPT !.isDelivered = TRUE, !.deliveredAt = t] ELSE m

\* The update and the message_delivered emit of router.post('/send'): part_002 58-71.
RestSendDelivered(op) ==
    /\ op.kind = "rest" /\ op.pc = "update"
    /\ last' = <<"RestSendDelivered", op.user, op.receiver>>
    /\ msgs' = [i \in 1..Len(msgs) |-> MarkDelivered(msgs[i], op.msg.id, op.at)]
    /\ emits' = ToRoom(op.user, "message_delivered", None, op.msg.id, 0, TRUE, op.at)
    /\ sendOps' = Replace(op, [op EXCEPT !.pc = "done"])
    /\ UNCHANGED <<nextId, markOps, fcmCount, reported, users, fcmTokens, now>>
    /\ UNCHANGED presenceVars
    /\ UNCHANGED aiVars
    /\ UNCHANGED <<confirmed, listOp, deleting>>


\* ------------------------------------------------------------------ mark as read
\* n: slot; kind: "socket" or "rest"; reader/sender: the pair; conn: the
\* reader's socket; ssock: senderSocketId; ids: the _ids the REST handler
\* found; at: its `now`; todo: callbacks still due.
MarkOp(n, kind, c, r, s, ssock, ids, t, todo) ==
    [n |-> n, kind |-> kind, conn |-> c, reader |-> r, sender |-> s, ssock |-> ssock,
     ids |-> ids, at |-> t, todo |-> todo]

FreeMarkSlot == CHOOSE n \in 1..MaxMarks : \A op \in markOps : op.n # n
MarkCapacity == Cardinality(markOps) < MaxMarks

Ids(S) == {m.id : m \in S}

\* Message.updateMany({sender, receiver, isRead: false}, {$set: {isRead: true, readAt}})
ReadIfUnreadAnyReceiver(m, r, s, t) ==
    IF m.sender = s /\ ~m.isRead THEN [m EXCEPT !.isRead = TRUE, !.readAt = t] ELSE m
ReadIfUnread(m, r, s, t) ==
    IF m.sender = s /\ m.receiver = r /\ ~m.isRead
    THEN [m EXCEPT !.isRead = TRUE, !.readAt = t] ELSE m

\* Message.updateMany({_id: {$in: ids}}, {$set: {isRead: true, readAt}})
ReadIfListed(m, ids, t) ==
    IF m.id \in ids THEN [m EXCEPT !.isRead = TRUE, !.readAt = t] ELSE m

Count(r, s, n) == [reported EXCEPT ![<<r, s>>] = @ + n]

\* socket.on('mark_messages_read') up to Message.updateMany(...): index.js 1053-1097.
MarkStart(c, s) ==
    /\ connState[c] = "open"
    /\ last' = <<"MarkStart", c, s>>
    /\ IF userId[c] = None
       THEN /\ emits' = ToSocket(c, "error:Not authenticated", None, 0, 0, FALSE, Null)
            /\ UNCHANGED <<markOps, now>>
       ELSE IF s = None
       THEN /\ emits' = ToSocket(c, "error:Sender ID is required", None, 0, 0, FALSE, Null)
            /\ UNCHANGED <<markOps, now>>
       ELSE \E t \in {now, now + 1} :
            LET ssock == MapGet(connectedUsers, s)
            IN  /\ Clock(t)
                /\ MarkCapacity
                /\ now' = t
                /\ emits' = ToSocket(c, "messages_marked_read", None, 0, 0, FALSE, Null)
                     \cup ToSocket(ssock, "message_read", userId[c], 0, 0, FALSE, Null)
                /\ markOps' = markOps \cup
                     {MarkOp(FreeMarkSlot, "socket", c, userId[c], s, ssock, {}, t,
                             {"update"})}
    /\ UNCHANGED <<msgs, nextId, sendOps, fcmCount, reported, users, fcmTokens>>
    /\ UNCHANGED presenceVars
    /\ UNCHANGED aiVars
    /\ UNCHANGED <<confirmed, listOp, deleting>>

\* What the updateMany callback emits: index.js 1098-1117.
MarkEmitsUnguarded(c, ssock, readBy, s, n) ==
    ToSocket(c, "messages_marked_read", None, 0, n, FALSE, Null)
    \cup ToSocket(ssock, "message_read", readBy, 0, n, FALSE, Null)
    \cup ToSocket(c, "unread_count_update", s, 0, 0, FALSE, Null)
MarkEmits(c, ssock, readBy, s, n) ==
    (IF n > 0
     THEN ToSocket(c, "messages_marked_read", None, 0, n, FALSE, Null)
          \cup ToSocket(ssock, "message_read", readBy, 0, n, FALSE, Null)
     ELSE {})
    \cup ToSocket(c, "unread_count_update", s, 0, 0, FALSE, Null)

\* Message.updateMany(...) of the socket handler and its callback: index.js 1085-1117.
MarkUpdate(op) ==
    /\ op.kind = "socket"
    /\ last' = <<"MarkUpdate", op.reader, op.sender>>
    /\ LET n == Cardinality(Unread(op.reader, op.sender))
       IN  /\ msgs' = [i \in 1..Len(msgs) |->
                         ReadIfUnread(msgs[i], op.reader, op.sender, op.at)]
           /\ emits' = MarkEmits(op.conn, op.ssock, userId[op.conn], op.sender, n)
           /\ reported' = Count(op.reader, op.sender, n)
           /\ confirmed' = confirmed \cup {<<op.reader, op.sender>>}
    /\ markOps' = markOps \ {op}
    /\ UNCHANGED <<nextId, sendOps, fcmCount, users, fcmTokens, now>>
    /\ UNCHANGED presenceVars
    /\ UNCHANGED aiVars
    /\ UNCHANGED <<listOp, deleting>>

\* router.post('/mark-as-read') of routes/chat.js 144-189; auth has found the
\* caller's account.
RestMarkAsRead(u, s) ==
    /\ u \in users
    /\ last' = <<"RestMarkAsRead", u, s>>
    /\ IF s = None
       THEN /\ emits' = Http(u, "http:400:Sender ID is required", None, 0, 0, FALSE, Null)
            /\ UNCHANGED <<msgs, reported, now, confirmed>>
       ELSE \E t \in {now, now + 1} :
            LET n == Cardinality(Unread(u, s))
            IN  /\ Clock(t)
                /\ now' = t
                /\ msgs' = [i \in 1..Len(msgs) |-> ReadIfUnread(msgs[i], u, s, t)]
                /\ emits' = ToRoom(s, "messages_read", u, 0, n, FALSE, Null)
                            \cup Http(u, "http:200:markedCount", s, 0, n, FALSE, Null)
                /\ reported' = Count(u, s, n)
                /\ confirmed' = confirmed \cup {<<u, s>>}
    /\ UNCHANGED <<nextId, sendOps, markOps, fcmCount, users, fcmTokens>>
    /\ UNCHANGED presenceVars
    /\ UNCHANGED aiVars
    /\ UNCHANGED <<listOp, deleting>>

\* router.post('/mark-as-read') of part_002, from the find to the response: 183-210.
RestMarkSeenStart(u, s) ==
    /\ u \in users
    /\ last' = <<"RestMarkSeenStart", u, s>>
    /\ LET ids == Ids(Unread(u, s))
       IN  IF s = None
           THEN /\ emits' = Http(u, "http:400:Sender ID is required", None, 0, 0, FALSE,
                                 Null)
                /\ UNCHANGED <<markOps, reported, now, confirmed>>
           ELSE IF ids = {}
           THEN /\ emits' = Http(u, "http:200:markedCount", s, 0, 0, FALSE, Null)
                /\ confirmed' = confirmed \cup {<<u, s>>}
                /\ UNCHANGED <<markOps, reported, now>>
           ELSE \E t \in {now, now + 1} :
                /\ Clock(t)
                /\ MarkCapacity
                /\ now' = t
                /\ emits' = Http(u, "http:200:markedCount", s, 0, Cardinality(ids),
                                 FALSE, Null)
                /\ reported' = Count(u, s, Cardinality(ids))
                /\ confirmed' = confirmed \cup {<<u, s>>}
                /\ markOps' = markOps \cup
                     {MarkOp(FreeMarkSlot, "rest", None, u, s, None, ids, t,
                             {"emit", "update"})}
    /\ UNCHANGED <<msgs, nextId, sendOps, fcmCount, users, fcmTokens>>
    /\ UNCHANGED presenceVars
    /\ UNCHANGED aiVars
    /\ UNCHANGED <<listOp, deleting>>

Retire(op, op2) == IF op2.todo = {} THEN markOps \ {op} ELSE (markOps \ {op}) \cup {op2}

\* The setImmediate callback of part_002 215-225.
RestMarkSeenEmit(op) ==
    /\ op.kind = "rest" /\ "emit" \in op.todo
    /\ last' = <<"RestMarkSeenEmit", op.reader, op.sender>>
    /\ emits' = ToRoom(op.sender, "messages_seen", op.reader, 0, Cardinality(op.ids),
                       FALSE, op.at)
    /\ markOps' = Retire(op, [op EXCEPT !.todo = @ \ {"emit"}])
    /\ UNCHANGED <<msgs, nextId, sendOps, fcmCount, reported, users, fcmTokens, now>>
    /\ UNCHANGED presenceVars
    /\ UNCHANGED aiVars
    /\ UNCHANGED <<confirmed, listOp, deleting>>

\* The updateMany of part_002 229-234.
RestMarkSeenUpdate(op) ==
    /\ op.kind = "rest" /\ "update" \in op.todo
    /\ last' = <<"RestMarkSeenUpdate", op.reader, op.sender>>
    /\ msgs' = [i \in 1..Len(msgs) |-> ReadIfListed(msgs[i], op.ids, op.at)]
    /\ emits' = {}
    /\ markOps' = Retire(op, [op EXCEPT !.todo = @ \ {"update"}])
    /\ UNCHANGED <<nextId, sendOps, fcmCount, reported, users, fcmTokens, now>>
    /\ UNCHANGED presenceVars
    /\ UNCHANGED aiVars
    /\ UNCHANGED <<confirmed, listOp, deleting>>


\* ------------------------------------------------------------------ GET /conversations
\* Message.distinct('receiver', {sender}) and Message.distinct('sender', {receiver}).
Counterparts(p) ==
    {m.receiver : m \in {x \in Stored : x.sender = p}}
    \cup {m.sender : m \in {x \in Stored : x.receiver = p}}

Between(p, q) ==
    {m \in Stored : (m.sender = p /\ m.receiver = q) \/ (m.sender = q /\ m.receiver = p)}

\* Message.findOne({$or: ...}).sort({createdAt: -1})
LastMessage(p, q) ==
    IF Between(p, q) = {} THEN NoMsg
    ELSE CHOOSE m \in Between(p, q) : \A x \in Between(p, q) : x.createdAt <= m.createdAt

\* router.get('/conversations') up to the per-counterpart queries: part_002 242-252.
ListStart(p) ==
    /\ p \in users
    /\ listOp.pc = "idle"
    /\ last' = <<"ListStart", p, None>>
    /\ listOp' = [pc |-> "query", user |-> p, ids |-> Counterparts(p),
                  after |-> {s \in Users : <<p, s>> \in confirmed}]
    /\ emits' = {}
    /\ UNCHANGED <<msgs, nextId, sendOps, markOps, fcmCount, reported, confirmed,
                   deleting, users, fcmTokens, now>>
    /\ UNCHANGED presenceVars
    /\ UNCHANGED aiVars

\* The entry of one counterpart: part_002 256-293.
Conversation(p, q) ==
    Ev(p, "conversation", q, LastMessage(p, q).id, Cardinality(Unread(p, q)), FALSE,
       LastMessage(p, q).createdAt)

\* The orders in which Message.distinct and the Set built from its results may
\* list the ids: every enumeration of them.
Orders(ids) ==
    {o \in [1..Cardinality(ids) -> ids] : \A i, j \in DOMAIN o : o[i] = o[j] => i = j}

\* aTime / bTime of the comparator: the createdAt of the entry's lastMessage,
\* new Date(0) when it has none.
SortTime(e) == IF e.msg = NoMsg.id THEN 0 ELSE e.at

\* Array.prototype.sort((a, b) => bTime - aTime), which is stable: an entry
\* goes behind every entry already placed that is not older than it.
InsertAscending(e, s) ==
    LET k == Cardinality({i \in 1..Len(s) : SortTime(s[i]) <= SortTime(e)})
    IN  SubSeq(s, 1, k) \o <<e>> \o SubSeq(s, k + 1, Len(s))
Insert(e, s) ==
    LET k == Cardinality({i \in 1..Len(s) : SortTime(s[i]) >= SortTime(e)})
    IN  SubSeq(s, 1, k) \o <<e>> \o SubSeq(s, k + 1, Len(s))

RECURSIVE SortConversations(_)
SortConversations(s) ==
    IF s = <<>> THEN <<>>
    ELSE Insert(s[Len(s)], SortConversations(SubSeq(s, 1, Len(s) - 1)))

\* validConversations: the entries of the counterparts whose user document
\* exists, in the order of the ids, sorted: part_002 255-303.
Response(p, order) ==
    SortConversations(
        [i \in 1..Len(SelectSeq(order, LAMBDA q : q \in users)) |->
            Conversation(p, SelectSeq(order, LAMBDA q : q \in users)[i])])

Range(s) == {s[i] : i \in 1..Len(s)}

\* router.get('/conversations'), the per-counterpart queries and the response.
ListFinish ==
    /\ listOp.pc = "query"
    /\ last' = <<"ListFinish", listOp.user, None>>
    /\ \E order \in Orders(listOp.ids) : emits' = Range(Response(listOp.user, order))
    /\ listOp' = NoList
    /\ UNCHANGED <<msgs, nextId, sendOps, markOps, fcmCount, reported, confirmed,
                   deleting, users, fcmTokens, now>>
    /\ UNCHANGED presenceVars
    /\ UNCHANGED aiVars

\* ------------------------------------------------------------------ accounts
Involves(m, u) == m.sender = u \/ m.receiver = u

\* router.delete('/delete-account'), Message.deleteMany: routes/auth.js 207-215.
DeleteMessages(u) ==
    /\ u \in users \ deleting
    /\ Cardinality(Users \ users) + Cardinality(deleting) < MaxDeletes
    /\ last' = <<"DeleteMessages", u, None>>
    /\ msgs' = SelectSeq(msgs, LAMBDA m : ~Involves(m, u))
    /\ reported' = [p \in Users \X Users |-> IF u \in {p[1], p[2]} THEN 0 ELSE reported[p]]
    /\ deleting' = deleting \cup {u}
    /\ emits' = {}
    /\ UNCHANGED <<nextId, sendOps, markOps, fcmCount, confirmed, listOp, users,
                   fcmTokens, now>>
    /\ UNCHANGED presenceVars
    /\ UNCHANGED aiVars

\* router.delete('/delete-account'), User.findByIdAndDelete: routes/auth.js 217-220.
DeleteUser(u) ==
    /\ u \in deleting
    /\ last' = <<"DeleteUser", u, None>>
    /\ users' = users \ {u}
    /\ fcmTokens' = fcmTokens \ {u}
    /\ deleting' = deleting \ {u}
    /\ emits' = Http(u, "http:200:deleted", None, 0, 0, FALSE, Null)
    /\ UNCHANGED <<msgs, nextId, sendOps, markOps, fcmCount, reported, confirmed, listOp,
                   now>>
    /\ UNCHANGED presenceVars
    /\ UNCHANGED aiVars

\* router.post('/register-fcm-token'): part_002 313-334.
RegisterFcmToken(u) ==
    /\ u \in users
    /\ u \notin fcmTokens
    /\ last' = <<"RegisterFcmToken", u, None>>
    /\ fcmTokens' = fcmTokens \cup {u}
    /\ emits' = {}
    /\ UNCHANGED <<users, now>>
    /\ UNCHANGED storeVars
    /\ UNCHANGED presenceVars
    /\ UNCHANGED aiVars

\* router.post('/unregister-fcm-token'): part_002 337-352.
UnregisterFcmToken(u) ==
    /\ u \in users
    /\ u \in fcmTokens
    /\ last' = <<"UnregisterFcmToken", u, None>>
    /\ fcmTokens' = fcmTokens \ {u}
    /\ emits' = {}
    /\ UNCHANGED <<users, now>>
    /\ UNCHANGED storeVars
    /\ UNCHANGED presenceVars
    /\ UNCHANGED aiVars

\* ------------------------------------------------------------------ specification
Receivers == Users \cup {None}

PresenceNext ==
    \/ \E c \in Conns : Connect(c)
    \/ \E c \in Conns, tok \in Tokens : AuthStart(c, tok)
    \/ \E c \in Conns : AuthBind(c)
    \/ \E c \in Conns : AuthAdminList(c)
    \/ \E c \in Conns : Disconnect(c)

SendNext ==
    \/ \E c \in Conns, r \in Receivers, content \in Contents : SendStart(c, r, content)
    \/ \E op \in sendOps : SendEmit(op)
    \/ \E op \in sendOps : SendCount(op)
    \/ \E op \in sendOps, ok \in BOOLEAN : SendSave(op, ok)
    \/ \E op \in sendOps : SendFcm(op)
    \/ \E op \in sendOps, ok \in BOOLEAN : FcmSettle(op, ok)

RestSendNext ==
    \/ \E u \in Users, r \in Receivers, content \in Contents : RestSendStart(u, r, content)
    \/ \E op \in sendOps, ok \in BOOLEAN : RestSendSave(op, ok)
    \/ \E op \in sendOps : RestSendCheck(op)
    \/ \E op \in sendOps : RestSendDelivered(op)

MarkNext ==
    \/ \E c \in Conns, s \in Receivers : MarkStart(c, s)
    \/ \E op \in markOps : MarkUpdate(op)
    \/ \E u \in Users, s \in Receivers : RestMarkAsRead(u, s)

MarkSeenNext ==
    \/ \E u \in Users, s \in Receivers : RestMarkSeenStart(u, s)
    \/ \E op \in markOps : RestMarkSeenEmit(op)
    \/ \E op \in markOps : RestMarkSeenUpdate(op)

ListNext ==
    \/ \E p \in Users : ListStart(p)
    \/ ListFinish

AccountNext ==
    \/ \E u \in Users : DeleteMessages(u)
    \/ \E u \in Users : DeleteUser(u)
    \/ \E u \in Users : RegisterFcmToken(u)
    \/ \E u \in Users : UnregisterFcmToken(u)

\* ------------------------------------------------------------------ paid AI questions
\* socket.emit(...) of the ai_ask_paid handler; the routes answer with
\* res.json(...), which is no socket event.  What was answered is kept in
\* paidOps[r].response either way.
PaidEmit(r, ev) ==
    IF r = "ai_ask_paid" THEN ToSocket(OwnerSocket, ev, Owner, 0, 0, FALSE, Null) ELSE {}

\* The request arrives and runs to its first payment.save(): the field and
\* word-count checks pass, the socket handler verifies the signature, findOne
\* reads the payment (/retry-paid asks for one that is paid and not answered),
\* a payment already answered is refused, /ask-paid verifies the signature of
\* a payment not yet paid, and the handler sets the status and the question on
\* its copy of the document and saves it.
PaidRefusal(r, signed) ==
    LET paid == payment.status = "paid"
        answered == payment.questionAnswered
    IN  CASE r = "/retry-paid" ->
               IF paid /\ ~answered THEN None ELSE "requiresPayment"
          [] r = "ai_ask_paid" ->
               IF ~signed THEN "Payment verification failed"
               ELSE IF paid /\ answered THEN "alreadyAnswered" ELSE None
          [] OTHER ->
               IF paid /\ answered THEN "alreadyAnswered"
               ELSE IF ~paid /\ ~signed THEN "Invalid payment signature" ELSE None

PaidStart(r, signed) ==
    /\ paidOps[r].pc = "idle"
    /\ r = "ai_ask_paid" => connState[OwnerSocket] = "open" /\ userId[OwnerSocket] = Owner
    /\ LET refusal == PaidRefusal(r, signed)
       IN  IF refusal # None
           THEN /\ paidOps' = [paidOps EXCEPT ![r] =
                                 [pc |-> "done", isRetry |-> FALSE, response |-> refusal]]
                /\ emits' = PaidEmit(r, IF refusal = "alreadyAnswered"
                                        THEN "ai_ask_paid_response" ELSE "error")
           ELSE /\ paidOps' = [paidOps EXCEPT ![r] =
                                 [pc |-> "save",
                                  isRetry |-> payment.status = "paid"
                                              /\ ~payment.questionAnswered,
                                  response |-> None]]
                /\ emits' = {}
    /\ last' = <<"PaidStart", r, Owner>>
    /\ UNCHANGED <<payment, aiChat, activeAIRequests>>
    /\ UNCHANGED <<users, fcmTokens, now>>
    /\ UNCHANGED storeVars
    /\ UNCHANGED presenceVars

\* The first payment.save() lands: the document is paid.  The socket handler
\* tells the client it is processing; Kundli.findOne is issued.
PaidSave(r) ==
    /\ paidOps[r].pc = "save"
    /\ payment' = [payment EXCEPT !.status = "paid"]
    /\ paidOps' = [paidOps EXCEPT ![r].pc = "kundli"]
    /\ emits' = PaidEmit(r, "ai_processing")
    /\ last' = <<"PaidSave", r, Owner>>
    /\ UNCHANGED <<aiChat, activeAIRequests>>
    /\ UNCHANGED <<users, fcmTokens, now>>
    /\ UNCHANGED storeVars
    /\ UNCHANGED presenceVars

\* Kundli.findOne returns the Kundli (POST /create-payment refuses a user
\* without one); AIChat.findOne is issued.
PaidKundli(r) ==
    /\ paidOps[r].pc = "kundli"
    /\ paidOps' = [paidOps EXCEPT ![r].pc = "chat"]
    /\ emits' = {}
    /\ last' = <<"PaidKundli", r, Owner>>
    /\ UNCHANGED <<payment, aiChat, activeAIRequests>>
    /\ UNCHANGED <<users, fcmTokens, now>>
    /\ UNCHANGED storeVars
    /\ UNCHANGED presenceVars

\* generateAIResponse, up to its call of the AI service: a user whose request
\* is in progress is refused, anyone else takes the per-user lock.
Locked(u) == u \in activeAIRequests

\* AIChat.findOne returns and the handler calls generateAIResponse.  Refused,
\* it saves the failure reason on the payment; otherwise the AI call is out.
PaidChat(r) ==
    /\ paidOps[r].pc = "chat"
    /\ IF Locked(Owner)
       THEN /\ paidOps' = [paidOps EXCEPT ![r].pc = "fail"]
            /\ UNCHANGED activeAIRequests
       ELSE /\ paidOps' = [paidOps EXCEPT ![r].pc = "generate"]
            /\ activeAIRequests' = activeAIRequests \cup {Owner}
    /\ emits' = {}
    /\ last' = <<"PaidChat", r, Owner>>
    /\ UNCHANGED <<payment, aiChat>>
    /\ UNCHANGED <<users, fcmTokens, now>>
    /\ UNCHANGED storeVars
    /\ UNCHANGED presenceVars

\* The AI service answers or fails; generateAIResponse releases the lock in
\* its finally block.  On an answer the handler sets questionAnswered on its
\* copy of the payment and saves it; on a failure it saves the reason.
PaidGenerated(r, ok) ==
    /\ paidOps[r].pc = "generate"
    /\ activeAIRequests' = activeAIRequests \ {Owner}
    /\ paidOps' = [paidOps EXCEPT ![r].pc = IF ok THEN "mark" ELSE "fail"]
    /\ emits' = {}
    /\ last' = <<"PaidGenerated", r, Owner>>
    /\ UNCHANGED <<payment, aiChat>>
    /\ UNCHANGED <<users, fcmTokens, now>>
    /\ UNCHANGED storeVars
    /\ UNCHANGED presenceVars

\* The save of the failure reason lands and the handler answers that the
\* payment can be retried.
PaidFail(r) ==
    /\ paidOps[r].pc = "fail"
    /\ paidOps' = [paidOps EXCEPT ![r].pc = "done", ![r].response = "canRetry"]
    /\ emits' = PaidEmit(r, "ai_ask_paid_response")
    /\ last' = <<"PaidFail", r, Owner>>
    /\ UNCHANGED <<payment, aiChat, activeAIRequests>>
    /\ UNCHANGED <<users, fcmTokens, now>>
    /\ UNCHANGED storeVars
    /\ UNCHANGED presenceVars

\* The second payment.save() lands: the payment is answered.  The handler
\* pushes the question and the answer, both carrying the payment's id, on its
\* copy of the AI chat and saves it.
PaidMark(r) ==
    /\ paidOps[r].pc = "mark"
    /\ payment' = [payment EXCEPT !.questionAnswered = TRUE]
    /\ paidOps' = [paidOps EXCEPT ![r].pc = "append"]
    /\ emits' = {}
    /\ last' = <<"PaidMark", r, Owner>>
    /\ UNCHANGED <<aiChat, activeAIRequests>>
    /\ UNCHANGED <<users, fcmTokens, now>>
    /\ UNCHANGED storeVars
    /\ UNCHANGED presenceVars

\* aiChat.save() lands, appending the two pushed messages to the stored
\* document, and the handler answers with the AI's answer.
PaidAppend(r) ==
    /\ paidOps[r].pc = "append"
    /\ aiChat' = aiChat \o <<[role |-> "user", paymentId |-> PaymentId],
                             [role |-> "ai", paymentId |-> PaymentId]>>
    /\ paidOps' = [paidOps EXCEPT ![r].pc = "done", ![r].response = "success"]
    /\ emits' = PaidEmit(r, "ai_ask_paid_response")
    /\ last' = <<"PaidAppend", r, Owner>>
    /\ UNCHANGED <<payment, activeAIRequests>>
    /\ UNCHANGED <<users, fcmTokens, now>>
    /\ UNCHANGED storeVars
    /\ UNCHANGED presenceVars

PaidNext ==
    \/ \E r \in Requests, signed \in BOOLEAN : PaidStart(r, signed)
    \/ \E r \in Requests : PaidSave(r)
    \/ \E r \in Requests : PaidKundli(r)
    \/ \E r \in Requests : PaidChat(r)
    \/ \E r \in Requests, ok \in BOOLEAN : PaidGenerated(r, ok)
    \/ \E r \in Requests : PaidFail(r)
    \/ \E r \in Requests : PaidMark(r)
    \/ \E r \in Requests : PaidAppend(r)

Next ==
    \/ PresenceNext
    \/ SendNext
    \/ RestSendNext
    \/ MarkNext
    \/ MarkSeenNext
    \/ ListNext
    \/ AccountNext
    \/ PaidNext

Spec == Init /\ [][Next]_vars


\* Connections alone: every token and every user, and an account that may be
\* deleted, so that a valid token can name a user that no longer exists.
SpecPresence ==
    Init /\ [][PresenceNext \/ DeleteMessages("u3") \/ DeleteUser("u3")]_vars

\* ------------------------------------------------------------------ presence properties
Lookup(p) == MapGet(connectedUsers, p)

\* C1: a disconnect of connection c leaves the presence entry of every
\* principal that is bound to another connection in place, so that a stale
\* disconnect after a re-authenticate does not unbind the fresh connection.
C1_StaleDisconnectKeepsBinding ==
    [][\A c \in Conns, p \in Users :
         (connState[c] = "open" /\ connState'[c] = "closed"
          /\ MapHas(connectedUsers, p) /\ Lookup(p) # c)
         => MapGet(connectedUsers', p) = Lookup(p)]_vars

AuthErrors == {"error:No token provided", "error:Invalid token",
               "error:Token expired. Please login again.", "error:User not found",
               "error:Authentication failed"}

OneEntryPerPrincipal ==
    \A e1, e2 \in connectedUsers : e1[1] = e2[1] => e1 = e2

\* The step of authenticate on c that follows a successful user lookup.
BindStep(c) ==
    authOps[c].pc = "lookup" /\ authOps[c].found /\ authOps'[c].pc # "lookup"

\* C2: connectedUsers holds at most one connection per principal, and a
\* successful authenticate of p on c replaces whatever entry p had: afterwards
\* lookup(p) is c, the other principals' entries are as before, and no error
\* is emitted to c.
C2_BindSupersedes ==
    /\ []OneEntryPerPrincipal
    /\ [][\A c \in Conns :
            BindStep(c) =>
              LET p == authOps[c].uid
              IN  /\ MapGet(connectedUsers', p) = c
                  /\ {e \in connectedUsers' : e[1] # p} = {e \in connectedUsers : e[1] # p}
                  /\ \A e \in emits' : ~(e.to = c /\ e.ev \in AuthErrors)]_vars

\* p, authenticated on the still open c1, has just authenticated on c2.
C2_Witness ==
    \E p \in Users, c1, c2 \in Conns :
        /\ c1 # c2
        /\ last = <<"AuthBind", c2, p>>
        /\ userId[c1] = p /\ connState[c1] = "open"
        /\ Lookup(p) = c2

\* ------------------------------------------------------------------ socket send properties
\* Two sessions: u2 on c1 and u3 on c2.
SessionsNext ==
    \/ \E c \in Conns : Connect(c)
    \/ AuthStart("c1", "u2")
    \/ AuthStart("c2", "u3")
    \/ \E c \in Conns : AuthBind(c)
    \/ Disconnect("c2")

\* u2 sends to u3 over its socket, while u3 comes and goes, registers an
\* fcmToken or not, and u2's account may be deleted under the handler.
SpecSend ==
    Init /\ [][\/ SessionsNext
               \/ RegisterFcmToken("u3")
               \/ SendStart("c1", "u3", <<"a">>)
               \/ \E op \in sendOps : SendEmit(op)
               \/ \E op \in sendOps : SendCount(op)
               \/ \E op \in sendOps, ok \in BOOLEAN : SendSave(op, ok)
               \/ \E op \in sendOps : SendFcm(op)
               \/ DeleteMessages("u2")
               \/ DeleteUser("u2")]_vars

\* The socket sends past the routing decision, by whether the receiver had a
\* presence entry when the decision was taken.
Routed == {op \in sendOps : op.kind = "socket" /\ op.pc \in {"post", "done"}}
RoutedOnline == {op \in Routed : op.rsock # None}
RoutedOffline == {op \in Routed : op.rsock = None}

Copies(id) == {m \in Stored : m.id = id}

\* C3: a socket send whose receiver has a presence entry at decision time
\* yields a message with isDelivered = true and deliveredAt set, for which
\* sendFCMNotification is never invoked.
C3_OnlineSendNoFcm ==
    \A op \in RoutedOnline :
        /\ op.msg.isDelivered /\ op.msg.deliveredAt # Null
        /\ fcmCount[op.msg.id] = 0

\* C4, as the specification states it: a socket send whose receiver has no
\* presence entry at decision time yields a message with isDelivered = false
\* and deliveredAt null, for which sendFCMNotification is invoked exactly once
\* by the time the handler is through.
C4_OfflineSendOneFcm ==
    \A op \in RoutedOffline :
        /\ ~op.msg.isDelivered /\ op.msg.deliveredAt = Null
        /\ op.pc = "done" => fcmCount[op.msg.id] = 1

\* The step that runs the sender-lookup callback of op.
FcmStep(op) ==
    /\ "fcm" \in op.todo
    /\ \E op2 \in sendOps' : op2.n = op.n /\ "fcm" \notin op2.todo

\* C4, as the handler has it: a socket send whose receiver has no presence
\* entry at decision time builds, and stores if the save succeeds, a message
\* with isDelivered = false and deliveredAt null; sendFCMNotification is
\* invoked at most once for it: once, for the receiver and with the message
\* id, when the receiver's document has an fcmToken and the sender lookup
\* finds the sender's account, and never otherwise.
C4_OfflineSendFcmIfToken ==
    /\ [](\A op \in RoutedOffline :
            /\ ~op.msg.isDelivered /\ op.msg.deliveredAt = Null
            /\ \A m \in Copies(op.msg.id) : ~m.isDelivered /\ m.deliveredAt = Null
            /\ fcmCount[op.msg.id] <= 1
            /\ ~op.token => "fcm" \notin op.todo /\ fcmCount[op.msg.id] = 0
            /\ (op.token /\ fcmCount[op.msg.id] = 0) =>
                   "fcm" \in op.todo \/ op.fcm = "nosender")
    /\ [][\A op \in RoutedOffline :
            FcmStep(op) =>
              IF op.user \in users
              THEN /\ fcmCount'[op.msg.id] = 1
                   /\ \E e \in emits' :
                          e.ev = "fcm" /\ e.to = op.receiver /\ e.msg = op.msg.id
              ELSE /\ fcmCount'[op.msg.id] = 0
                   /\ \A e \in emits' : e.ev # "fcm"]_vars

\* A finished send to an offline receiver with an fcmToken: the message is
\* stored undelivered and the one notification has gone out.
C4_Witness ==
    \E op \in RoutedOffline :
        /\ op.pc = "done" /\ op.token
        /\ fcmCount[op.msg.id] = 1
        /\ \E m \in Copies(op.msg.id) : ~m.isDelivered

\* ------------------------------------------------------------------ delivery and read properties
Peer(u) == IF u = "u2" THEN "u3" ELSE "u2"

\* The state Init leads to once u2 has authenticated on c1 and then u3 on c2
\* (Connect, AuthStart and AuthBind of each), with nothing sent yet.
InitSessions ==
    /\ connState = [c \in Conns |-> "open"]
    /\ userId = [c \in Conns |-> IF c = "c1" THEN "u2" ELSE "u3"]
    /\ rooms = [c \in Conns |-> IF c = "c1" THEN {"u2"} ELSE {"u3"}]
    /\ connectedUsers = {<<"u2", "c1">>, <<"u3", "c2">>}
    /\ adminSockets = {}
    /\ authOps = [c \in Conns |-> NoOp]
    /\ users = Users
    /\ fcmTokens = {}
    /\ msgs = <<>>
    /\ nextId = 1
    /\ sendOps = {}
    /\ markOps = {}
    /\ emits = {Ev("c2", "authenticated", "u3", 0, 0, FALSE, Null)}
    /\ fcmCount = [i \in 1..MaxMsgs |-> 0]
    /\ now = 1
    /\ reported = [p \in Users \X Users |-> 0]
    /\ confirmed = {}
    /\ listOp = NoList
    /\ deleting = {}
    /\ last = <<"AuthBind", "c2", "u3">>
    /\ InitAI

\* u2 sends over its socket to u3 and to u1, u2 and u3 send to each other
\* over REST, and u3, which may go offline, reads what u2 sent it, over its
\* socket or over REST.
SpecRead ==
    InitSessions
    /\ [][\/ Disconnect("c2")
          \/ \E r \in {"u3", "u1"} : SendStart("c1", r, <<"a">>)
          \/ \E op \in sendOps : SendEmit(op)
          \/ \E op \in sendOps : SendCount(op)
          \/ \E op \in sendOps, ok \in BOOLEAN : SendSave(op, ok)
          \/ \E u \in {"u2", "u3"} : RestSendStart(u, Peer(u), <<"a">>)
          \/ \E op \in sendOps, ok \in BOOLEAN : RestSendSave(op, ok)
          \/ \E op \in sendOps : RestSendCheck(op)
          \/ \E op \in sendOps : RestSendDelivered(op)
          \/ MarkStart("c2", "u2")
          \/ \E op \in markOps : MarkUpdate(op)
          \/ RestMarkAsRead("u3", "u2")]_vars

\* C5: every stored message that is read is delivered, a message sent while
\* its receiver was offline and marked read later included.
C5_ReadImpliesDelivered ==
    \A m \in Stored : m.isRead => m.isDelivered

\* The events whose payload carries a message's delivery state.
DeliveryPayloads == {"new_message", "message_delivered", "http:201"}

\* C6: in the stored documents, in the documents the handlers hold and in
\* every emitted payload that carries them, isDelivered is true exactly when
\* deliveredAt is set.
C6_DeliveredIffStamped ==
    /\ \A m \in Stored : m.isDelivered <=> m.deliveredAt # Null
    /\ \A op \in sendOps : op.msg.isDelivered <=> op.msg.deliveredAt # Null
    /\ \A e \in emits : e.ev \in DeliveryPayloads => (e.delivered <=> e.at # Null)

\* Both delivery paths have acted and a read receipt has followed: a socket
\* message delivered at send time and a REST message delivered by the later
\* update are stored, and one of them is read.
C6_Witness ==
    \E m1, m2 \in Stored :
        /\ m1.isDelivered /\ \E op \in RoutedOnline : op.msg.id = m1.id
        /\ m2.isDelivered /\ \E op \in sendOps : op.kind = "rest" /\ op.msg.id = m2.id
        /\ m1.isRead \/ m2.isRead

\* The reader and the counterpart of the mark-as-read update or handler that
\* ran last (index.js 1085-1097; routes/chat.js 157-170).
MarkedLast == last[1] \in {"MarkUpdate", "RestMarkAsRead"} /\ last[3] # None

SpecMarks ==
    InitSessions
    /\ [][\/ SendStart("c1", "u3", <<"a">>)
          \/ \E op \in sendOps : SendEmit(op)
          \/ \E op \in sendOps : SendCount(op)
          \/ \E op \in sendOps, ok \in BOOLEAN : SendSave(op, ok)
          \/ MarkStart("c2", "u2")
          \/ \E op \in markOps : MarkUpdate(op)
          \/ RestMarkSeenStart("u3", "u2")
          \/ \E op \in markOps : RestMarkSeenEmit(op)
          \/ \E op \in markOps : RestMarkSeenUpdate(op)]_vars

\* The same, with one mark-as-read at a time and u3 listing its conversations.
SpecList ==
    InitSessions
    /\ [][\/ SendStart("c1", "u3", <<"a">>)
          \/ \E op \in sendOps : SendEmit(op)
          \/ \E op \in sendOps : SendCount(op)
          \/ \E op \in sendOps, ok \in BOOLEAN : SendSave(op, ok)
          \/ (markOps = {} /\ MarkStart("c2", "u2"))
          \/ \E op \in markOps : MarkUpdate(op)
          \/ (markOps = {} /\ RestMarkSeenStart("u3", "u2"))
          \/ \E op \in markOps : RestMarkSeenEmit(op)
          \/ \E op \in markOps : RestMarkSeenUpdate(op)
          \/ ListStart("u3")
          \/ ListFinish]_vars

\* C7: over all the markRead calls made for a pair, concurrent ones
\* included, the counts reported add up to the number of messages that went
\* from unread to read: whenever no call for <<reader, counterpart>> is in
\* flight, the sum of the reported counts is the number of read messages from
\* counterpart to reader.
C7_NoDoubleCount ==
    \A r, s \in Users :
        (\A op \in markOps : op.reader # r \/ op.sender # s)
        => reported[<<r, s>>] =
             Cardinality({m \in Stored : m.sender = s /\ m.receiver = r /\ m.isRead})

\* The reader of the mark-as-read step being taken.
StepReader == IF last'[1] = "MarkStart" THEN userId[last'[2]] ELSE last'[2]

\* A step of markRead(reader, counterpart), on the socket or of the REST
\* handler of part_002, taken while no message from counterpart to reader is
\* unread.
NoUnreadMark ==
    /\ last'[1] \in {"MarkStart", "MarkUpdate", "RestMarkSeenStart"}
    /\ last'[3] # None /\ StepReader # None
    /\ Unread(StepReader, last'[3]) = {}

C10_ListAfterMarkShowsZero ==
    [][(listOp.pc = "query" /\ listOp'.pc = "idle") =>
         \A e \in emits' :
             (/\ e.ev = "conversation"
              /\ e.user \in listOp.after
              /\ <<listOp.user, e.user>> \in confirmed)
             => e.count = 0]_vars

\* ------------------------------------------------------------------ conversation list properties
\* u2 sends to u3 over its socket, u2's account may be deleted at any point
\* of the handler, and u3 lists its conversations.
SpecAccounts ==
    InitSessions
    /\ [][\/ SendStart("c1", "u3", <<"a">>)
          \/ \E op \in sendOps : SendEmit(op)
          \/ \E op \in sendOps : SendCount(op)
          \/ \E op \in sendOps, ok \in BOOLEAN : SendSave(op, ok)
          \/ DeleteMessages("u2")
          \/ DeleteUser("u2")
          \/ ListStart("u3")
          \/ ListFinish]_vars

\* The counterparts the response of GET /conversations has an entry for.
Listed(es) == {e.user : e \in {x \in es : x.ev = "conversation"}}

\* C11: the response of listConversations(p) has an entry for every q with
\* which the store held a message of p, in either direction, when the request
\* queried it, sends interleaved with an account deletion included.  (The
\* entries of a response are a set keyed by counterpart, so none is repeated.)
C11_ListCoversCounterparts ==
    [][(listOp.pc = "query" /\ listOp'.pc = "idle") =>
         /\ Listed(emits') = listOp.ids
         /\ \A e1, e2 \in emits' : e1.user = e2.user => e1 = e2]_vars

\* ------------------------------------------------------------------ persistence properties
\* C12: a send whose save fails is not presented as sent: every socket send
\* that has emitted new_message (and message_delivered) for its message has
\* that message in the store once its save has settled.
C12_EmittedIsPersisted ==
    \A op \in Routed : "save" \notin op.todo => Copies(op.msg.id) # {}

\* C13: two messages of the same sender to the same receiver are stored in
\* the order in which their new_message events were emitted.  The handler
\* takes message ids in emission order, so the store holds the messages of a
\* pair in increasing id.
C13_PersistedInEmissionOrder ==
    \A i, j \in 1..Len(msgs) :
        (/\ i < j
         /\ msgs[i].sender = msgs[j].sender
         /\ msgs[i].receiver = msgs[j].receiver)
        => msgs[i].id < msgs[j].id

\* ------------------------------------------------------------------ admission properties
\* u2, on c1, sends every kind of request over its socket and over REST, one
\* request at a time; u1's account may be deleted, so
\* that a receiver id may name no user.
Quiet == \A op \in sendOps : op.pc = "done"

SpecAdmission ==
    InitSessions
    /\ [][\/ DeleteMessages("u1")
          \/ DeleteUser("u1")
          \/ \E r \in Receivers, content \in Contents :
                 Quiet /\ SendStart("c1", r, content)
          \/ \E op \in sendOps : SendEmit(op)
          \/ \E op \in sendOps : SendCount(op)
          \/ \E op \in sendOps, ok \in BOOLEAN : SendSave(op, ok)
          \/ \E r \in Receivers, content \in Contents :
                 Quiet /\ RestSendStart("u2", r, content)
          \/ \E op \in sendOps, ok \in BOOLEAN : RestSendSave(op, ok)
          \/ \E op \in sendOps : RestSendCheck(op)
          \/ \E op \in sendOps : RestSendDelivered(op)]_vars

\* The content preconditions of send: non-empty after trimming, and no longer
\* than the maximum.
ContentInvalid(content) == Trim(content) = <<>> \/ Len(content) > MaxContentLength

SendErrors == {"error:Receiver ID and content are required",
               "error:Content must be a non-empty string",
               "error:Message content too long (max 1000 characters)",
               "error:Cannot send message to yourself",
               "error:Receiver not found",
               "http:400:Receiver ID and content are required",
               "http:400:Content must be a non-empty string",
               "http:400:Message content too long (max 1000 characters)",
               "http:400:Cannot send message to yourself",
               "http:404:Receiver not found"}

\* The step rejects the send: an error goes to the caller (unless the caller
\* is a socket that has closed meanwhile), nothing goes to anybody else, no
\* message is created or stored, no send is taken further and
\* sendFCMNotification is not invoked.
Rejects(caller) ==
    /\ \A e \in emits' : e.to = caller /\ e.ev \in SendErrors
    /\ (caller \in Users \/ connState[caller] = "open") => emits' # {}
    /\ msgs' = msgs /\ nextId' = nextId /\ fcmCount' = fcmCount
    /\ sendOps' \subseteq sendOps

\* C14: a send that violates a precondition (receiver equal to the sender,
\* content empty after trimming or too long, receiver id that names no user)
\* is rejected with an error to the caller only; no message is created or
\* stored, nothing is emitted to another connection and sendFCMNotification is
\* not invoked.
C14_InvalidSendRejected ==
    [][/\ \A c \in Conns, r \in Receivers, content \in Contents :
            (/\ SendStart(c, r, content)
             /\ userId[c] # None /\ r # None
             /\ r = userId[c] \/ ContentInvalid(content))
            => Rejects(c)
       /\ \A u \in Users, r \in Receivers, content \in Contents :
            (RestSendStart(u, r, content) /\ r # None /\ ContentInvalid(content))
            => Rejects(u)
       /\ \A op \in sendOps :
            (SendEmit(op) /\ ~op.found) => Rejects(op.conn)
       /\ \A op \in sendOps, ok \in BOOLEAN :
            (RestSendSave(op, ok) /\ (~op.found \/ op.receiver = op.user))
            => Rejects(op.user)]_vars

\* A send to a receiver id that names no user has just been refused, with a
\* message of an earlier send in the store.
C14_Witness ==
    /\ last[1] = "SendEmit"
    /\ \E e \in emits : e.ev = "error:Receiver not found" /\ e.to = "c1"
    /\ msgs # <<>>

\* The client of c1, signed in as u2, signs in as u3 on the same socket while
\* it sends to u3.
SpecSwitch ==
    InitSessions
    /\ [][\/ AuthStart("c1", "u3")
          \/ AuthBind("c1")
          \/ SendStart("c1", "u3", <<"a">>)
          \/ \E op \in sendOps : SendEmit(op)
          \/ \E op \in sendOps : SendCount(op)
          \/ \E op \in sendOps, ok \in BOOLEAN : SendSave(op, ok)]_vars

\* C15: every message a send creates is unread and has a sender other than
\* its receiver, so that the store never holds a message of a principal to
\* itself.
C15_NoSelfMessage ==
    /\ \A op \in sendOps :
         op.msg # NoMsg => ~op.msg.isRead /\ op.msg.sender # op.msg.receiver
    /\ \A m \in Stored : m.sender # m.receiver

\* ------------------------------------------------------------------ fan-out properties
\* u2 sends to u3 over its socket; u3 may have registered an fcmToken and may
\* go offline, u2's socket may close under its handler, and the notification
\* may fail.
SpecDispatch ==
    InitSessions
    /\ [][\/ \E c \in Conns : Disconnect(c)
          \/ RegisterFcmToken("u3")
          \/ SendStart("c1", "u3", <<"a">>)
          \/ \E op \in sendOps : SendEmit(op)
          \/ \E op \in sendOps : SendCount(op)
          \/ \E op \in sendOps, ok \in BOOLEAN : SendSave(op, ok)
          \/ \E op \in sendOps : SendFcm(op)
          \/ \E op \in sendOps, ok \in BOOLEAN : FcmSettle(op, ok)]_vars

\* The events of the step that reach connection c, by name.
Received(c, ev) == {e \in emits' : e.to = c /\ e.ev = ev}

\* C16: when the socket handler routes an admitted message of A to B and B
\* has a presence entry, new_message goes to A's connection and to B's bound
\* connection (to each that is still connected), and A gets exactly one
\* message_delivered, which carries the id of that message; when B has no
\* presence entry there is no message_delivered.  No other step of a socket
\* send emits message_delivered.
C16_OnlineFanOut ==
    [][/\ \A op \in sendOps :
            (SendEmit(op) /\ op.found) =>
              LET a == op.conn
                  b == Lookup(op.receiver)
                  id == nextId
              IN  /\ connState[a] = "open" =>
                        \E e \in Received(a, "new_message") : e.msg = id
                  /\ IF b # None
                     THEN /\ connState[b] = "open" =>
                                \E e \in Received(b, "new_message") : e.msg = id
                          /\ connState[a] = "open" =>
                                /\ Cardinality(Received(a, "message_delivered")) = 1
                                /\ \A e \in Received(a, "message_delivered") : e.msg = id
                          /\ \A e \in emits' : e.ev = "message_delivered" => e.to = a
                     ELSE \A e \in emits' : e.ev # "message_delivered"
       /\ (\A op \in sendOps : ~SendEmit(op))
            => \A e \in emits' : e.ev # "message_delivered"]_vars

\* The second message of u2 has just gone out to both parties and been
\* confirmed to the sender.
C16_Witness ==
    /\ last[1] = "SendEmit"
    /\ \E e \in emits : e.to = "c1" /\ e.ev = "new_message" /\ e.msg = 2
    /\ \E e \in emits : e.to = "c2" /\ e.ev = "new_message" /\ e.msg = 2
    /\ \E e \in emits : e.to = "c1" /\ e.ev = "message_delivered" /\ e.msg = 2

\* The save callback of the send in slot n is still due.
SaveDue(ops, n) == \E op \in ops : op.n = n /\ "save" \in op.todo

\* C17: a failure of the notification dispatcher does not fail the send.
\* sendFCMNotification is called only for a message that has already gone
\* out to the sender as new_message; the step in which it fails emits nothing
\* (no send-failure error), leaves the store as it is and leaves the save of
\* the message due if it was due; and the save of a message whose
\* notification has failed stores the message like any other.
C17_FcmFailureHarmless ==
    /\ [](\A op \in sendOps : op.fcm \in {"sent", "failed", "pushed"} => op \in Routed)
    /\ [][\A op \in sendOps :
            /\ FcmSettle(op, FALSE) =>
                 /\ emits' = {}
                 /\ msgs' = msgs
                 /\ SaveDue(sendOps', op.n) = SaveDue(sendOps, op.n)
            /\ (op.fcm = "failed" /\ SendSave(op, TRUE)) =>
                 /\ Copies(op.msg.id)' = {op.msg}
                 /\ \A e \in emits' : e.ev # "error:Message sent but failed to save"]_vars

\* The notification of a message has failed, and the message is in the store.
C17_Witness ==
    \E op \in sendOps :
        /\ op.fcm = "failed" /\ op.pc = "done"
        /\ Copies(op.msg.id) # {}

\* ------------------------------------------------------------------ privileged-listener properties
\* C18: when a successful authenticate of p on c2 replaces a binding of p to
\* another connection c1, c1 is not in adminSockets after that step.
C18_SupersededNotAdmin ==
    [][\A c2 \in Conns :
         BindStep(c2) =>
           LET c1 == Lookup(authOps[c2].uid)
           IN  (c1 # None /\ c1 # c2) => c1 \notin adminSockets']_vars

\* The admin, authenticated on the still open c1, has just authenticated on
\* c2: c2 is a privileged listener and c1 no longer is.
C18_Witness ==
    \E c1, c2 \in Conns :
        /\ c1 # c2
        /\ last = <<"AuthBind", c2, "u1">>
        /\ userId[c1] = "u1" /\ connState[c1] = "open"
        /\ c2 \in adminSockets /\ c1 \notin adminSockets

\* ------------------------------------------------------------------ authentication properties
\* u2 signs in on either socket, on one after the other as well, c2 may
\* close, and c1 sends to u3 and marks u3's messages read, before as well as
\* after it has authenticated.
SpecUnbound ==
    Init /\ [][\/ \E c \in Conns : Connect(c)
               \/ \E c \in Conns : AuthStart(c, "u2")
               \/ \E c \in Conns : AuthBind(c)
               \/ Disconnect("c2")
               \/ SendStart("c1", "u3", <<"a">>)
               \/ \E op \in sendOps : SendEmit(op)
               \/ \E op \in sendOps, ok \in BOOLEAN : SendSave(op, ok)
               \/ (markOps = {} /\ MarkStart("c1", "u3"))
               \/ \E op \in markOps : MarkUpdate(op)]_vars

\* No entry of connectedUsers names connection c.
Unbound(c) == \A e \in connectedUsers : e[2] # c

\* The step answers 'Not authenticated' to c and does nothing else.
NotAuthenticated(c) ==
    /\ emits' = {Ev(c, "error:Not authenticated", None, 0, 0, FALSE, Null)}
    /\ msgs' = msgs /\ sendOps' = sendOps /\ markOps' = markOps

\* C19: send_message and mark_messages_read on a connection that
\* connectedUsers binds to no principal are answered 'Not authenticated' and
\* change neither the store nor what any other connection receives.
C19_UnboundRejected ==
    [][\A c \in Conns :
         /\ (/\ Unbound(c)
             /\ \E r \in Receivers, content \in Contents : SendStart(c, r, content))
            => NotAuthenticated(c)
         /\ (Unbound(c) /\ \E s \in Receivers : MarkStart(c, s))
            => NotAuthenticated(c)]_vars

\* ------------------------------------------------------------------ read-confirmation properties
\* The counts of the message_read events a socket markRead emitted to the
\* counterpart's connection before its update ran: one event, of count 0, if
\* the counterpart had a presence entry (index.js 1076-1082).
EarlyReadCounts(op) == IF op.ssock # None THEN {0} ELSE {}

\* C20: every message_read event that markRead(reader, counterpart) emits
\* to the counterpart's connection carries the reader's id and, as count, the
\* number of messages this markRead turned from unread to read; the
\* unread_count_update that follows on the reader's connection carries 0.
C20_ReadConfirmationCount ==
    [][\A op \in markOps :
         MarkUpdate(op) =>
           LET n == Cardinality(Unread(op.reader, op.sender))
               late == {e \in emits' : e.ev = "message_read"}
           IN  /\ \A k \in EarlyReadCounts(op) : k = n
               /\ \A e \in late : e.user = op.reader /\ e.count = n /\ e.to = op.ssock
               /\ \A e \in emits' : e.ev = "unread_count_update" => e.count = 0]_vars

\* ------------------------------------------------------------------ conversation order properties
\* u2 sends to u3 and u3 sends to u1, at the same or at different times; u2's
\* account may be deleted, also while u3's GET /conversations is between its
\* distinct queries and its per-counterpart queries.
SpecOrder ==
    InitSessions
    /\ [][\/ SendStart("c1", "u3", <<"a">>)
          \/ SendStart("c2", "u1", <<"a">>)
          \/ \E op \in sendOps : SendEmit(op)
          \/ \E op \in sendOps : SendCount(op)
          \/ \E op \in sendOps, ok \in BOOLEAN : SendSave(op, ok)
          \/ DeleteMessages("u2")
          \/ DeleteUser("u2")
          \/ ListStart("u3")
          \/ ListFinish]_vars

\* C21: the response of listConversations(p) is in descending order of the
\* creation time of each entry's last message, entries without a last message
\* after all others; the last message of an entry is a most recently created
\* message between p and the counterpart, in either direction.
C21_ListOrdered ==
    [][(listOp.pc = "query" /\ listOp'.pc = "idle") =>
         \A order \in Orders(listOp.ids) :
            LET p == listOp.user
                resp == Response(p, order)
            IN  /\ Range(resp) = emits'
                /\ \A i, j \in 1..Len(resp) :
                     i < j =>
                       /\ resp[i].msg = NoMsg.id => resp[j].msg = NoMsg.id
                       /\ (resp[i].msg # NoMsg.id /\ resp[j].msg # NoMsg.id)
                          => resp[i].at >= resp[j].at
                /\ \A i \in 1..Len(resp) :
                     IF Between(p, resp[i].user) = {}
                     THEN resp[i].msg = NoMsg.id
                     ELSE \E m \in Between(p, resp[i].user) :
                            /\ m.id = resp[i].msg /\ m.createdAt = resp[i].at
                            /\ \A x \in Between(p, resp[i].user) :
                                 x.createdAt <= m.createdAt]_vars

\* A response with two entries whose last messages were created at different
\* times.
C21_Witness ==
    /\ last[1] = "ListFinish"
    /\ \E e1, e2 \in emits :
         /\ e1.ev = "conversation" /\ e2.ev = "conversation"
         /\ e1.msg # NoMsg.id /\ e2.msg # NoMsg.id
         /\ e1.at > e2.at

\* ------------------------------------------------------------------ routing properties
\* u2 signs in on either socket, on one after the other as well, and sockets
\* close; u3, over REST, marks u2's messages read, which is announced to u2.
SpecRooms ==
    Init /\ [][\/ \E c \in Conns : Connect(c)
               \/ \E c \in Conns : AuthStart(c, "u2")
               \/ \E c \in Conns : AuthBind(c)
               \/ \E c \in Conns : Disconnect(c)
               \/ RestMarkAsRead("u3", "u2")]_vars

\* The events the handlers route to a principal.
RoutedEvents == {"new_message", "message_delivered", "message_read", "messages_read",
                 "messages_seen", "unread_count_update"}

\* Connection c1 was bound to p, and p's entry now names another connection.
Superseded(c1, p) == userId[c1] = p /\ MapHas(connectedUsers, p) /\ Lookup(p) # c1

\* C22: once p has authenticated on c2, the connection c1 it was bound to
\* before gets no event routed to p any more.
C22_SupersededGetsNothing ==
    \A c1 \in Conns, p \in Users :
        Superseded(c1, p) => \A e \in emits : e.ev \in RoutedEvents => e.to # c1

\* ------------------------------------------------------------------ delivery stability properties
\* u2, on c1, sends to u3 over REST and over its socket; u3 connects,
\* authenticates and disconnects at any point, and reads what it got.
SpecReconnect ==
    Init /\ [][\/ \E c \in Conns : Connect(c)
               \/ AuthStart("c1", "u2")
               \/ AuthStart("c2", "u3")
               \/ \E c \in Conns : AuthBind(c)
               \/ Disconnect("c2")
               \/ RestSendStart("u2", "u3", <<"a">>)
               \/ \E op \in sendOps, ok \in BOOLEAN : RestSendSave(op, ok)
               \/ \E op \in sendOps : RestSendCheck(op)
               \/ \E op \in sendOps : RestSendDelivered(op)
               \/ SendStart("c1", "u3", <<"a">>)
               \/ \E op \in sendOps : SendEmit(op)
               \/ \E op \in sendOps : SendCount(op)
               \/ \E op \in sendOps, ok \in BOOLEAN : SendSave(op, ok)
               \/ RestMarkAsRead("u3", "u2")]_vars

\* The steps of the connection lifecycle: connection, authenticate, disconnect.
PresenceSteps == {"Connect", "AuthStart", "AuthBind", "AuthAdminList", "Disconnect"}

\* C23: no step of a connection's lifecycle (connection, authenticate,
\* disconnect) changes a stored message, so that a message stored undelivered
\* is not marked delivered by its receiver coming online; and a stored message
\* whose deliveredAt is set keeps its deliveredAt and stays delivered whatever
\* happens.
C23_DeliveryStable ==
    [][/\ last'[1] \in PresenceSteps => msgs' = msgs
       /\ \A m \in Stored :
            m.deliveredAt # Null =>
              \A m2 \in Stored' :
                 m2.id = m.id => m2.isDelivered /\ m2.deliveredAt = m.deliveredAt]_vars

\* u3 has just authenticated while a message to it is stored undelivered,
\* next to one that was delivered.
C23_Witness ==
    /\ last = <<"AuthBind", "c2", "u3">>
    /\ \E m \in Stored : m.receiver = "u3" /\ ~m.isDelivered
    /\ \E m \in Stored : m.receiver = "u3" /\ m.isDelivered

\* ------------------------------------------------------------------ unread count properties
\* C24: the unread_count_update of a send routed to an online receiver is
\* computed over a store that holds the message just sent: when the count is
\* taken the save of the message has settled, and the value emitted is the
\* number of stored unread messages of the sender to the receiver.
C24_CountIncludesNewMessage ==
    [][\A op \in sendOps :
         SendCount(op) =>
           /\ "save" \notin op.todo
           /\ \A e \in emits' :
                e.ev = "unread_count_update"
                => e.count = Cardinality(Unread(op.receiver, op.user))]_vars

\* ------------------------------------------------------------------ authentication failure properties
\* The step refuses the authenticate of c: an error goes to c (unless c has
\* closed meanwhile) and to nobody else, and the bindings stay as they were.
AuthRejected(c) ==
    /\ \A e \in emits' : e.to = c /\ e.ev \in AuthErrors
    /\ connState[c] = "open" => emits' # {}
    /\ connectedUsers' = connectedUsers /\ adminSockets' = adminSockets
    /\ userId' = userId /\ rooms' = rooms

\* C25: an authenticate that fails (no token, a token that is invalid or
\* expired, a token naming a user that does not exist) emits an error to the
\* calling connection and leaves connectedUsers, adminSockets and the
\* connection's identity as they were; and a connection's identity changes
\* only in the step that follows a successful user lookup.
C25_FailedAuthChangesNothing ==
    [][\A c \in Conns :
         /\ (\E tok \in {"missing", "invalid", "expired"} : AuthStart(c, tok))
            => AuthRejected(c)
         /\ \A tok \in Users :
              (AuthStart(c, tok) /\ tok \notin users)
              => /\ ~authOps'[c].found
                 /\ connectedUsers' = connectedUsers /\ adminSockets' = adminSockets
                 /\ userId' = userId
         /\ (AuthBind(c) /\ ~authOps[c].found) => AuthRejected(c)
         /\ userId'[c] # userId[c] => BindStep(c)]_vars

\* c, bound to a user, has just been refused with a token of a deleted
\* account, and is bound as before.
C25_Witness ==
    \E c \in Conns :
        /\ last[1] = "AuthBind" /\ last[2] = c
        /\ \E e \in emits : e.ev = "error:User not found" /\ e.to = c
        /\ userId[c] # None /\ Lookup(userId[c]) = c

\* ------------------------------------------------------------------ presence index properties
\* C26: every entry p -> c of connectedUsers names a connection that is
\* connected and whose socket.userId is p.
C26_EntriesAreLive ==
    \A e \in connectedUsers : connState[e[2]] = "open" /\ userId[e[2]] = e[1]

\* C27: every connection in adminSockets is connected and is the connection
\* connectedUsers binds to a principal that is an admin.
C27_AdminSocketsAreLiveAdmins ==
    \A c \in adminSockets :
        /\ connState[c] = "open"
        /\ \E p \in Users : IsAdmin(p) /\ Lookup(p) = c

\* C28: the room of a user has a socket in it exactly when connectedUsers has
\* an entry for the user.
C28_OnlineTestsAgree ==
    \A u \in Users : RoomOnline(u) <=> MapHas(connectedUsers, u)

\* ------------------------------------------------------------------ read monotonicity properties
\* C29: a stored message that is read stays read and keeps its readAt,
\* overlapping mark-as-read requests for its pair included.
C29_ReadMonotonic ==
    [][\A m \in Stored :
         m.isRead =>
           \A m2 \in Stored' : m2.id = m.id => m2.isRead /\ m2.readAt = m.readAt]_vars

\* ------------------------------------------------------------------ paid questions
\* One socket request, one POST /ask-paid and one POST /retry-paid, all on
\* the one payment of u2, in every interleaving of their awaits, with the
\* signature right or wrong and the AI answering or failing.
SpecPaid == InitSessions /\ [][PaidNext]_vars

\* The messages of the AI chat that carry the payment's id and the given role.
Carrying(role) ==
    {i \in 1..Len(aiChat) : aiChat[i].paymentId = PaymentId /\ aiChat[i].role = role}

\* C30: each payment is used for at most one answered question: whatever the
\* interleaving of socket ai_ask_paid, POST /ask-paid and POST /retry-paid
\* requests on the same payment, at most one question and one answer carrying
\* its id are appended to the user's AI chat.
C30_OnePairPerPayment ==
    /\ Cardinality(Carrying("user")) <= 1
    /\ Cardinality(Carrying("ai")) <= 1

====
